---- MODULE Spec2Model ----
(***************************************************************************)
(* A model of diagrams/ldap_monitoring.py: the script's main block, its    *)
(* five build routines, and the graph each routine declares statement by   *)
(* statement before the Diagram context manager renders it to a file.      *)
(*                                                                         *)
(* Strings are the source's, with "\n" kept and the non-ASCII decorations  *)
(* (emoji, bullets, check marks) left out: the module format is ASCII.     *)
(***************************************************************************)
EXTENDS Integers, Sequences, FiniteSets, TLC

\* How many times the script is run one after the other.
MaxRuns == 2
\* How many build routines a caller that imports the module invokes.
MaxCalls == 2

(***************************************************************************)
(* Statements.  A build routine is the sequence of its statements.         *)
(***************************************************************************)

\* with Diagram(name, show=False, direction=..., filename=...):
WithDiagram(name, direction, filename) ==
    [op |-> "diagram", name |-> name, direction |-> direction, filename |-> filename]

\* with Cluster(label):
WithCluster(label) == [op |-> "cluster", label |-> label]

\* the end of a "with Cluster" block
EndCluster == [op |-> "endcluster"]

\* the end of the "with Diagram" block: the diagram is rendered
EndDiagram == [op |-> "enddiagram"]

\* var = Icon(label)
Node(var, icon, label) == [op |-> "node", var |-> var, icon |-> icon, label |-> label]

\* var = [v1, v2, ...]
List(var, items) == [op |-> "list", var |-> var, items |-> items]

\* var = [Icon(label), Icon(label), ...]
Nodes(var, items) == [op |-> "nodes", var |-> var, items |-> items]

\* Edge(label=..., color=..., style=...); an attribute not given is ""
Edge(label, color, style) == [label |-> label, color |-> color, style |-> style]

\* src >> Edge(...) >> dst, dst a node or a list of nodes
Connect(src, attrs, dst) == [op |-> "connect", src |-> src, attrs |-> attrs, dst |-> dst]

\* for var in l1 + l2 + ...: <body>, the body one Connect statement
For(var, lists, body) == [op |-> "for", var |-> var, lists |-> lists, body |-> body]

(***************************************************************************)
(* create_architecture                                                     *)
(***************************************************************************)
create_architecture_diagram ==
    WithDiagram("ThousandEyes LDAP Monitoring Architecture", "TB",
                "output/ldap_monitoring_architecture")

create_architecture_nodes ==
    << Node("te_saas", "MonitoringService", "ThousandEyes SaaS\nControl Plane\n:443/HTTPS"),
       WithCluster("EMEA Region"),
         WithCluster("Enterprise Agents"),
           Node("emea_agent1", "Client", "Agent ag-123456\n(Monitoring Client)"),
           Node("emea_agent2", "Client", "Agent ag-123457\n(Monitoring Client)"),
           List("emea_agents", <<"emea_agent1", "emea_agent2">>),
         EndCluster,
         Node("emea_firewall", "Firewall", "Corporate Firewall\nEMEA"),
         WithCluster("LDAP Servers"),
           Node("emea_ldap1", "LDAPService", "ldap-emea-01.corp.com\n:636/LDAPS"),
           Node("emea_ldap2", "LDAPService", "ldap-emea-02.corp.com\n:636/LDAPS"),
           List("emea_ldaps", <<"emea_ldap1", "emea_ldap2">>),
         EndCluster,
       EndCluster,
       WithCluster("AMER Region"),
         WithCluster("Enterprise Agents"),
           Node("amer_agent1", "Client", "Agent ag-234567\n(Monitoring Client)"),
           Node("amer_agent2", "Client", "Agent ag-234568\n(Monitoring Client)"),
           List("amer_agents", <<"amer_agent1", "amer_agent2">>),
         EndCluster,
         Node("amer_firewall", "Firewall", "Corporate Firewall\nAMER"),
         WithCluster("LDAP Servers"),
           Node("amer_ldap1", "LDAPService", "ldap-amer-01.corp.com\n:636/LDAPS"),
           Node("amer_ldap2", "LDAPService", "ldap-amer-02.corp.com\n:636/LDAPS"),
           List("amer_ldaps", <<"amer_ldap1", "amer_ldap2">>),
         EndCluster,
       EndCluster,
       WithCluster("APAC Region"),
         WithCluster("Enterprise Agents"),
           Node("apac_agent1", "Client", "Agent ag-345678\n(Monitoring Client)"),
           Node("apac_agent2", "Client", "Agent ag-345679\n(Monitoring Client)"),
           List("apac_agents", <<"apac_agent1", "apac_agent2">>),
         EndCluster,
         Node("apac_firewall", "Firewall", "Corporate Firewall\nAPAC"),
         WithCluster("LDAP Servers"),
           Node("apac_ldap1", "LDAPService", "ldap-apac-01.corp.com\n:636/LDAPS"),
           Node("apac_ldap2", "LDAPService", "ldap-apac-02.corp.com\n:636/LDAPS"),
           List("apac_ldaps", <<"apac_ldap1", "apac_ldap2">>),
         EndCluster,
       EndCluster >>

\* The edges with the APAC agents wired to the EMEA firewall.
create_architecture_edges_CrossRegion ==
    << For("agent", <<"emea_agents", "amer_agents", "apac_agents">>,
           Connect("agent", Edge("443/HTTPS\nHeartbeat & Config", "", "dotted"), "te_saas")),
       For("agent", <<"emea_agents">>,
           Connect("agent", Edge("636/LDAPS\nMonitoring", "red", ""), "emea_firewall")),
       Connect("emea_firewall", Edge("", "red", ""), "emea_ldaps"),
       For("agent", <<"amer_agents">>,
           Connect("agent", Edge("636/LDAPS\nMonitoring", "red", ""), "amer_firewall")),
       Connect("amer_firewall", Edge("", "red", ""), "amer_ldaps"),
       For("agent", <<"apac_agents">>,
           Connect("agent", Edge("636/LDAPS\nMonitoring", "red", ""), "emea_firewall")),
       Connect("apac_firewall", Edge("", "red", ""), "apac_ldaps") >>

create_architecture_edges ==
    << For("agent", <<"emea_agents", "amer_agents", "apac_agents">>,
           Connect("agent", Edge("443/HTTPS\nHeartbeat & Config", "", "dotted"), "te_saas")),
       For("agent", <<"emea_agents">>,
           Connect("agent", Edge("636/LDAPS\nMonitoring", "red", ""), "emea_firewall")),
       Connect("emea_firewall", Edge("", "red", ""), "emea_ldaps"),
       For("agent", <<"amer_agents">>,
           Connect("agent", Edge("636/LDAPS\nMonitoring", "red", ""), "amer_firewall")),
       Connect("amer_firewall", Edge("", "red", ""), "amer_ldaps"),
       For("agent", <<"apac_agents">>,
           Connect("agent", Edge("636/LDAPS\nMonitoring", "red", ""), "apac_firewall")),
       Connect("apac_firewall", Edge("", "red", ""), "apac_ldaps") >>

create_architecture ==
    <<create_architecture_diagram>> \o create_architecture_nodes
        \o create_architecture_edges \o <<EndDiagram>>

(***************************************************************************)
(* create_coverage                                                         *)
(***************************************************************************)
\* The diagram given the architecture diagram's file name.
create_coverage_diagram_SameFile ==
    WithDiagram("LDAP Monitoring Coverage - Multi-Layer Validation", "TB",
                "output/ldap_monitoring_architecture")

create_coverage_diagram ==
    WithDiagram("LDAP Monitoring Coverage - Multi-Layer Validation", "TB",
                "output/ldap_monitoring_coverage")

create_coverage_nodes ==
    << Node("agent", "Client", "ThousandEyes\nEnterprise Agent\n(Monitoring Client)"),
       Node("script", "JavaScript", "ldap-monitor.js\nTransaction Script"),
       WithCluster("Layer 1: Network Connectivity"),
         Node("tcp_check", "Network", "TCP Socket\nConnection"),
         Node("firewall_check", "Firewall", "Firewall\nRule Validation"),
         Node("routing_check", "Router", "Network Path\nIntegrity"),
         Node("network_metrics", "MonitoringService",
              "Network Metrics:\n Connection Time\n Routing Latency\n Packet Loss"),
       EndCluster,
       WithCluster("Layer 2: Security & Encryption"),
         Node("tls_handshake", "SecurityService", "TLS Handshake\nValidation"),
         Node("cert_validation", "CertService", "Certificate Chain\nVerification"),
         Node("protocol_check", "SecurityService", "Protocol Compliance\nTLS 1.2+"),
         Node("security_metrics", "SecurityService",
              "Security Metrics:\n Certificate Expiry\n TLS Version\n Cipher Strength"),
       EndCluster,
       WithCluster("Layer 3: Application Service"),
         Node("bind_operation", "LDAPService", "LDAP Bind\nAuthentication"),
         Node("search_operation", "LDAPService", "Directory Search\nRoot DSE Query"),
         Node("protocol_compliance", "InspectorService", "LDAPv3 Protocol\nCompliance"),
         Node("service_metrics", "InspectorService",
              "Service Metrics:\n Bind Success Rate\n Search Response\n Error Codes"),
       EndCluster,
       WithCluster("Layer 4: Performance Monitoring"),
         Node("response_time", "MonitoringService", "Response Time\nMonitoring"),
         Node("threshold_check", "InspectorService", "Threshold\nValidation"),
         Node("sla_compliance", "AuditService", "SLA Compliance\nTracking"),
         Node("performance_metrics", "MonitoringService",
              "Performance Metrics:\n <300ms Threshold\n 99.9% Availability\n Regional Latency"),
       EndCluster,
       Node("ldap_server", "LDAPService", "LDAP Server\n:636/LDAPS") >>

create_coverage_edges ==
    << Connect("agent", Edge("Execute", "", ""), "script"),
       Connect("script", Edge("Test", "", ""), "ldap_server"),
       Connect("script", Edge("1. TCP Connect", "blue", ""), "tcp_check"),
       Connect("tcp_check", Edge("", "blue", ""), "firewall_check"),
       Connect("firewall_check", Edge("", "blue", ""), "routing_check"),
       Connect("routing_check", Edge("", "blue", ""), "network_metrics"),
       Connect("script", Edge("2. TLS Handshake", "green", ""), "tls_handshake"),
       Connect("tls_handshake", Edge("", "green", ""), "cert_validation"),
       Connect("cert_validation", Edge("", "green", ""), "protocol_check"),
       Connect("protocol_check", Edge("", "green", ""), "security_metrics"),
       Connect("script", Edge("3. LDAP Operations", "orange", ""), "bind_operation"),
       Connect("bind_operation", Edge("", "orange", ""), "search_operation"),
       Connect("search_operation", Edge("", "orange", ""), "protocol_compliance"),
       Connect("protocol_compliance", Edge("", "orange", ""), "service_metrics"),
       Connect("script", Edge("4. Performance Analysis", "purple", ""), "response_time"),
       Connect("response_time", Edge("", "purple", ""), "threshold_check"),
       Connect("threshold_check", Edge("", "purple", ""), "sla_compliance"),
       Connect("sla_compliance", Edge("", "purple", ""), "performance_metrics") >>

create_coverage ==
    <<create_coverage_diagram>> \o create_coverage_nodes
        \o create_coverage_edges \o <<EndDiagram>>

(***************************************************************************)
(* create_validation_matrix                                                *)
(***************************************************************************)
create_validation_matrix ==
    << WithDiagram("LDAP Monitoring Validation Matrix", "TB", "output/validation_matrix"),
       WithCluster("Network Validation"),
         Nodes("net_items", << <<"Network", "TCP Port 636\nReachability">>,
                               <<"Firewall", "Firewall Rule\nCompliance">>,
                               <<"MonitoringService", "Network Latency\nMeasurement">> >>),
       EndCluster,
       WithCluster("Security Validation"),
         Nodes("sec_items", << <<"CertService", "Certificate\nExpiry Check">>,
                               <<"CertService", "CA Chain\nValidation">>,
                               <<"SecurityService", "TLS 1.2+\nEnforcement">> >>),
       EndCluster,
       WithCluster("Service Validation"),
         Nodes("svc_items", << <<"LDAPService", "Authentication\nBind Test">>,
                               <<"LDAPService", "Directory\nSearch Query">>,
                               <<"InspectorService", "Protocol\nCompliance">> >>),
       EndCluster,
       WithCluster("Performance Validation"),
         Nodes("perf_items", << <<"MonitoringService", "Response Time\n<300ms">>,
                                <<"MonitoringService", "Availability\n99.9%">>,
                                <<"MonitoringService", "Latency\nMonitoring">> >>),
       EndCluster,
       Node("monitor", "MonitoringService", "ldap-monitor.js\nValidation Service"),
       For("item", <<"net_items">>, Connect("monitor", Edge("", "blue", ""), "item")),
       For("item", <<"sec_items">>, Connect("monitor", Edge("", "green", ""), "item")),
       For("item", <<"svc_items">>, Connect("monitor", Edge("", "orange", ""), "item")),
       For("item", <<"perf_items">>, Connect("monitor", Edge("", "purple", ""), "item")),
       EndDiagram >>

(***************************************************************************)
(* create_timeline                                                         *)
(***************************************************************************)
create_timeline ==
    << WithDiagram("LDAP Monitoring Test Sequence", "LR", "output/monitoring_timeline"),
       Node("step1", "Network", "1. TCP Connection\nEstablishment\n(Network Layer)"),
       Node("step2", "SecurityService", "2. TLS Handshake\n& Certificate\n(Security Layer)"),
       Node("step3", "LDAPService", "3. LDAP Bind\nAuthentication\n(Directory Layer)"),
       Node("step4", "LDAPService", "4. Directory Search\nRoot DSE Query\n(Service Layer)"),
       Node("step5", "MonitoringService", "5. Performance\nValidation\n(Monitoring Layer)"),
       Node("timing1", "MonitoringService", "Baseline: <100ms"),
       Node("timing2", "MonitoringService", "Threshold: <300ms"),
       Node("timing3", "MonitoringService", "Threshold: <300ms"),
       Node("timing4", "MonitoringService", "Threshold: <300ms"),
       Node("timing5", "MonitoringService", "Total: <1000ms"),
       Connect("step1", Edge("Success", "", ""), "step2"),
       Connect("step2", Edge("Valid Cert", "", ""), "step3"),
       Connect("step3", Edge("Auth OK", "", ""), "step4"),
       Connect("step4", Edge("Data Retrieved", "", ""), "step5"),
       Connect("step1", Edge("", "red", "dotted"), "timing1"),
       Connect("step2", Edge("", "red", "dotted"), "timing2"),
       Connect("step3", Edge("", "red", "dotted"), "timing3"),
       Connect("step4", Edge("", "red", "dotted"), "timing4"),
       Connect("step5", Edge("", "red", "dotted"), "timing5"),
       EndDiagram >>

(***************************************************************************)
(* create_firewall_rules                                                   *)
(***************************************************************************)
\* The routine with its first rule written above the firewall's declaration.
create_firewall_rules_EdgeFirst ==
    << WithDiagram("Required Firewall Rules", "LR", "output/firewall_rules"),
       WithCluster("Enterprise Agent Subnets"),
         Node("agent_subnet", "Network", "Agent Networks\n(Per Region)"),
       EndCluster,
       Connect("agent_subnet", Edge("Rule 1: Control Plane", "blue", ""), "firewall"),
       Node("firewall", "Firewall", "Corporate Firewall"),
       WithCluster("Allowed Destinations"),
         Node("te_dest", "MonitoringService",
              "ThousandEyes SaaS\n*.thousandeyes.com\n443/HTTPS\nOutbound Only"),
         Node("ldap_dest", "LDAPService", "LDAP Directory Servers\n636/LDAPS\nOutbound Only"),
       EndCluster,
       Connect("firewall", Edge("443/HTTPS", "blue", ""), "te_dest"),
       Connect("agent_subnet", Edge("Rule 2: LDAP Monitoring", "red", ""), "firewall"),
       Connect("firewall", Edge("636/LDAPS", "red", ""), "ldap_dest"),
       EndDiagram >>

create_firewall_rules ==
    << WithDiagram("Required Firewall Rules", "LR", "output/firewall_rules"),
       WithCluster("Enterprise Agent Subnets"),
         Node("agent_subnet", "Network", "Agent Networks\n(Per Region)"),
       EndCluster,
       Node("firewall", "Firewall", "Corporate Firewall"),
       WithCluster("Allowed Destinations"),
         Node("te_dest", "MonitoringService",
              "ThousandEyes SaaS\n*.thousandeyes.com\n443/HTTPS\nOutbound Only"),
         Node("ldap_dest", "LDAPService", "LDAP Directory Servers\n636/LDAPS\nOutbound Only"),
       EndCluster,
       Connect("agent_subnet", Edge("Rule 1: Control Plane", "blue", ""), "firewall"),
       Connect("firewall", Edge("443/HTTPS", "blue", ""), "te_dest"),
       Connect("agent_subnet", Edge("Rule 2: LDAP Monitoring", "red", ""), "firewall"),
       Connect("firewall", Edge("636/LDAPS", "red", ""), "ldap_dest"),
       EndDiagram >>

\* The five build routines, by name.
Routines ==
    {"create_architecture", "create_coverage", "create_validation_matrix",
     "create_timeline", "create_firewall_rules"}

\* The body of the routine called f.
Program(f) ==
    CASE f = "create_architecture" -> create_architecture
      [] f = "create_coverage" -> create_coverage
      [] f = "create_validation_matrix" -> create_validation_matrix
      [] f = "create_timeline" -> create_timeline
      [] f = "create_firewall_rules" -> create_firewall_rules

(***************************************************************************)
(* The main block.                                                         *)
(***************************************************************************)
\* print(text)
PrintLine(text) == [op |-> "print", text |-> text]

\* os.makedirs(path, exist_ok=True)
Makedirs(path) == [op |-> "makedirs", path |-> path]

\* f()
Call(f) == [op |-> "call", f |-> f]

main_banner ==
    << PrintLine("Generating LDAP monitoring diagrams..."),
       PrintLine("Using AWS icons for semantic accuracy"),
       PrintLine("Clean and professional appearance"),
       PrintLine("Generic LDAP monitoring setup") >>

\* The main block without its directory creation.
main_makedirs_Missing == << >>

main_makedirs == << Makedirs("output") >>

\* The builds with the timeline's progress message printed before its call.
main_builds_PrintEarly ==
    << Call("create_architecture"), PrintLine("Architecture diagram created"),
       Call("create_coverage"), PrintLine("Coverage diagram created"),
       Call("create_validation_matrix"), PrintLine("Validation matrix created"),
       PrintLine("Timeline diagram created"), Call("create_timeline"),
       Call("create_firewall_rules"), PrintLine("Firewall rules diagram created") >>

main_builds ==
    << Call("create_architecture"), PrintLine("Architecture diagram created"),
       Call("create_coverage"), PrintLine("Coverage diagram created"),
       Call("create_validation_matrix"), PrintLine("Validation matrix created"),
       Call("create_timeline"), PrintLine("Timeline diagram created"),
       Call("create_firewall_rules"), PrintLine("Firewall rules diagram created") >>

\* The summary naming the timeline file by the routine's name.
main_summary_WrongName ==
    << PrintLine("\nAll diagrams generated!"),
       PrintLine("Output directory: output/"),
       PrintLine("Professional appearance using AWS icons for semantic accuracy!"),
       PrintLine("\nGenerated files:"),
       PrintLine("- ldap_monitoring_architecture.png"),
       PrintLine("- ldap_monitoring_coverage.png"),
       PrintLine("- validation_matrix.png"),
       PrintLine("- timeline.png"),
       PrintLine("- firewall_rules.png") >>

main_summary ==
    << PrintLine("\nAll diagrams generated!"),
       PrintLine("Output directory: output/"),
       PrintLine("Professional appearance using AWS icons for semantic accuracy!"),
       PrintLine("\nGenerated files:"),
       PrintLine("- ldap_monitoring_architecture.png"),
       PrintLine("- ldap_monitoring_coverage.png"),
       PrintLine("- validation_matrix.png"),
       PrintLine("- monitoring_timeline.png"),
       PrintLine("- firewall_rules.png") >>

MainProgram == main_banner \o main_makedirs \o main_builds \o main_summary

(***************************************************************************)
(* State.                                                                  *)
(***************************************************************************)
VARIABLES
    mode,       \* "script": run as __main__; "import": a caller invokes routines
    status,     \* "running", "done" (the process ended normally), "crashed"
    run,        \* which run of the script this is
    calls,      \* build routines the importing caller has invoked
    mpc,        \* the main block's next statement
    fn,         \* the build routine being executed, "" when none is
    fpc,        \* the routine's next statement
    it,         \* iterations of the routine's current for loop already made
    env,        \* the routine's local variables: name -> sequence of node ids
    active,     \* the library's global diagram context is set
    diagram,    \* the Diagram object last entered, with its graph
    stack,      \* the library's cluster context: ids of the open clusters
    nextId,     \* identities handed out so far (objects, node ids)
    dirExists,  \* the output/ directory exists
    fs,         \* the files of output/: path -> content
    log,        \* this process's events, in order
    snap,       \* fs as it was when this process started
    built       \* routine -> the graph structures it has rendered so far

vars == <<mode, status, run, calls, mpc, fn, fpc, it, env, active, diagram,
          stack, nextId, dirExists, fs, log, snap, built>>

EmptyEnv == [v \in {} |-> << >>]

NoFiles == [p \in {} |-> << >>]

\* The Diagram object before any diagram was entered.
NoDiagram ==
    [id |-> 0, name |-> "", direction |-> "", filename |-> "",
     nodes |-> << >>, clusters |-> << >>, edges |-> << >>]

\* Diagram.__init__ keeping the graph of the diagram entered before.
NewDiagram_Reuse(stmt, id) ==
    [diagram EXCEPT !.id = id, !.name = stmt.name, !.direction = stmt.direction,
                    !.filename = stmt.filename]

\* Diagram(name, direction=..., filename=...): a new object with an empty graph.
NewDiagram(stmt, id) ==
    [id |-> id, name |-> stmt.name, direction |-> stmt.direction,
     filename |-> stmt.filename, nodes |-> << >>, clusters |-> << >>, edges |-> << >>]

\* The innermost open cluster taken to be none.
ClusterParent_Flat(stk) == 0

\* The cluster a new node or cluster is placed in: the innermost open one,
\* 0 for the diagram itself.
ClusterParent(stk) == IF stk = << >> THEN 0 ELSE stk[Len(stk)]

\* The file a diagram renders to: its filename with the output format added.
OutputPath(d) == d.filename \o ".png"

\* A write that keeps an existing file and puts the content beside it.
WriteFile_NoClobber(files, path, content) ==
    LET p == IF path \in DOMAIN files THEN path \o ".1" ELSE path
    IN  [q \in DOMAIN files \cup {p} |-> IF q = p THEN content ELSE files[q]]

\* Writing a file creates it or replaces its content.
WriteFile(files, path, content) ==
    [q \in DOMAIN files \cup {path} |-> IF q = path THEN content ELSE files[q]]

\* Binding a local variable.
Bind(e, var, ids) == [v \in DOMAIN e \cup {var} |-> IF v = var THEN ids ELSE e[v]]

RECURSIVE Concat(_, _)
\* l1 + l2 + ... for the lists named in a for statement's header.
Concat(e, lists) ==
    IF lists = << >> THEN << >> ELSE e[lists[1]] \o Concat(e, SubSeq(lists, 2, Len(lists)))

\* The position of an object among those of a graph, 0 when it is not there.
Index(objs, id) ==
    IF \E i \in 1..Len(objs) : objs[i].id = id
    THEN CHOOSE i \in 1..Len(objs) : objs[i].id = id
    ELSE 0

\* What a rendered image shows of a diagram: its clusters, nodes and edges with
\* their attributes, the objects' identities replaced by their positions.
Structure(d) ==
    [name |-> d.name, direction |-> d.direction,
     clusters |-> [i \in 1..Len(d.clusters) |->
                     [label |-> d.clusters[i].label,
                      parent |-> Index(d.clusters, d.clusters[i].parent)]],
     nodes |-> [i \in 1..Len(d.nodes) |->
                     [icon |-> d.nodes[i].icon, label |-> d.nodes[i].label,
                      cluster |-> Index(d.clusters, d.nodes[i].cluster)]],
     edges |-> [i \in 1..Len(d.edges) |->
                     [src |-> Index(d.nodes, d.edges[i].src),
                      dst |-> Index(d.nodes, d.edges[i].dst),
                      attrs |-> d.edges[i].attrs]]]

\* The statement a running routine is at.
Stmt == Program(fn)[fpc]

InRoutine == status = "running" /\ fn # ""

InMain == status = "running" /\ mode = "script" /\ fn = "" /\ mpc <= Len(MainProgram)

\* A file left in output/ by something else than this script.
StaleImage == [NoDiagram EXCEPT !.name = "stale"]

Init ==
    /\ mode \in {"script", "import"}
    /\ status = "running"
    /\ run = 1
    /\ calls = 0
    /\ mpc = 1
    /\ fn = ""
    /\ fpc = 1
    /\ it = 0
    /\ env = EmptyEnv
    /\ active = FALSE
    /\ diagram = NoDiagram
    /\ stack = << >>
    /\ nextId = 1
    /\ \/ dirExists = FALSE /\ fs = NoFiles
       \/ dirExists = TRUE /\ fs = NoFiles
       \/ /\ dirExists = TRUE
          /\ fs = [p \in {"output/notes.png", "output/firewall_rules.png"} |-> StaleImage]
    /\ log = << >>
    /\ snap = fs
    /\ built = [r \in Routines |-> {}]

(***************************************************************************)
(* The main block's statements.                                            *)
(***************************************************************************)
\* print(...): the text goes to standard output.
MainPrint ==
    /\ InMain
    /\ MainProgram[mpc].op = "print"
    /\ log' = Append(log, <<"print", MainProgram[mpc].text>>)
    /\ mpc' = mpc + 1
    /\ UNCHANGED <<mode, status, run, calls, fn, fpc, it, env, active, diagram,
                   stack, nextId, dirExists, fs, snap, built>>

\* os.makedirs("output", exist_ok=True): an existing directory is left as it is.
MainMakedirs ==
    /\ InMain
    /\ MainProgram[mpc].op = "makedirs"
    /\ dirExists' = TRUE
    /\ log' = Append(log, <<"makedirs", MainProgram[mpc].path>>)
    /\ mpc' = mpc + 1
    /\ UNCHANGED <<mode, status, run, calls, fn, fpc, it, env, active, diagram,
                   stack, nextId, fs, snap, built>>

\* create_...(): the routine starts with a frame of its own.
MainCall ==
    /\ InMain
    /\ MainProgram[mpc].op = "call"
    /\ fn' = MainProgram[mpc].f
    /\ fpc' = 1
    /\ it' = 0
    /\ env' = EmptyEnv
    /\ log' = Append(log, <<"call", MainProgram[mpc].f>>)
    /\ UNCHANGED <<mode, status, run, calls, mpc, active, diagram, stack, nextId,
                   dirExists, fs, snap, built>>

\* The end of the main block: the process exits normally.
MainExit ==
    /\ status = "running"
    /\ mode = "script"
    /\ fn = ""
    /\ mpc = Len(MainProgram) + 1
    /\ status' = "done"
    /\ UNCHANGED <<mode, run, calls, mpc, fn, fpc, it, env, active, diagram, stack,
                   nextId, dirExists, fs, log, snap, built>>

\* The script is run again after a run that ended normally.
Rerun ==
    /\ status = "done"
    /\ run < MaxRuns
    /\ run' = run + 1
    /\ status' = "running"
    /\ mpc' = 1
    /\ log' = << >>
    /\ snap' = fs
    /\ UNCHANGED <<mode, calls, fn, fpc, it, env, active, diagram, stack, nextId,
                   dirExists, fs, built>>

\* A caller that imported the module invokes one build routine, any of the five.
ImportCall ==
    /\ status = "running"
    /\ mode = "import"
    /\ fn = ""
    /\ calls < MaxCalls
    /\ \E f \in Routines :
          /\ fn' = f
          /\ log' = Append(log, <<"call", f>>)
    /\ calls' = calls + 1
    /\ fpc' = 1
    /\ it' = 0
    /\ env' = EmptyEnv
    /\ UNCHANGED <<mode, status, run, mpc, active, diagram, stack, nextId,
                   dirExists, fs, snap, built>>

(***************************************************************************)
(* A build routine's statements.                                           *)
(***************************************************************************)
\* with Diagram(...): a new Diagram object becomes the global diagram context.
EnterDiagram ==
    /\ InRoutine
    /\ Stmt.op = "diagram"
    /\ diagram' = NewDiagram(Stmt, nextId)
    /\ nextId' = nextId + 1
    /\ active' = TRUE
    /\ fpc' = fpc + 1
    /\ UNCHANGED <<mode, status, run, calls, mpc, fn, it, env, stack, dirExists,
                   fs, log, snap, built>>

\* with Cluster(label): a new cluster inside the innermost open one.
EnterCluster ==
    /\ InRoutine
    /\ Stmt.op = "cluster"
    /\ active
    /\ diagram' = [diagram EXCEPT !.clusters =
                      Append(@, [id |-> nextId, label |-> Stmt.label,
                                 parent |-> ClusterParent(stack)])]
    /\ stack' = Append(stack, nextId)
    /\ nextId' = nextId + 1
    /\ fpc' = fpc + 1
    /\ UNCHANGED <<mode, status, run, calls, mpc, fn, it, env, active, dirExists,
                   fs, log, snap, built>>

\* The end of a with Cluster block: the cluster context goes back to the parent.
ExitCluster ==
    /\ InRoutine
    /\ Stmt.op = "endcluster"
    /\ stack # << >>
    /\ stack' = SubSeq(stack, 1, Len(stack) - 1)
    /\ fpc' = fpc + 1
    /\ UNCHANGED <<mode, status, run, calls, mpc, fn, it, env, active, diagram,
                   nextId, dirExists, fs, log, snap, built>>

\* The node objects a statement creates, the first with identity id.
NewNodes(items, id) ==
    [i \in 1..Len(items) |->
        [id |-> id + i - 1, icon |-> items[i][1], label |-> items[i][2],
         cluster |-> ClusterParent(stack), owner |-> diagram.id]]

\* var = Icon(label): a node of the current diagram, in the innermost open cluster.
AssignNode ==
    /\ InRoutine
    /\ Stmt.op = "node"
    /\ active
    /\ diagram' = [diagram EXCEPT !.nodes =
                      @ \o NewNodes(<< <<Stmt.icon, Stmt.label>> >>, nextId)]
    /\ env' = Bind(env, Stmt.var, <<nextId>>)
    /\ nextId' = nextId + 1
    /\ fpc' = fpc + 1
    /\ UNCHANGED <<mode, status, run, calls, mpc, fn, it, active, stack, dirExists,
                   fs, log, snap, built>>

\* var = [Icon(label), ...]: the nodes are created in order and the list is bound.
AssignNodes ==
    /\ InRoutine
    /\ Stmt.op = "nodes"
    /\ active
    /\ diagram' = [diagram EXCEPT !.nodes = @ \o NewNodes(Stmt.items, nextId)]
    /\ env' = Bind(env, Stmt.var, [i \in 1..Len(Stmt.items) |-> nextId + i - 1])
    /\ nextId' = nextId + Len(Stmt.items)
    /\ fpc' = fpc + 1
    /\ UNCHANGED <<mode, status, run, calls, mpc, fn, it, active, stack, dirExists,
                   fs, log, snap, built>>

\* Every name of the sequence is a local variable that has been assigned.
Bound(e, names) == \A i \in 1..Len(names) : names[i] \in DOMAIN e

\* var = [v1, v2, ...]
AssignList ==
    /\ InRoutine
    /\ Stmt.op = "list"
    /\ Bound(env, Stmt.items)
    /\ env' = Bind(env, Stmt.var, [i \in 1..Len(Stmt.items) |-> env[Stmt.items[i]][1]])
    /\ fpc' = fpc + 1
    /\ UNCHANGED <<mode, status, run, calls, mpc, fn, it, active, diagram, stack,
                   nextId, dirExists, fs, log, snap, built>>

\* The edges src >> Edge(...) >> dst adds: one to dst, or one to each node of dst.
NewEdges(e, c) ==
    [i \in 1..Len(e[c.dst]) |->
        [src |-> e[c.src][1], dst |-> e[c.dst][i], attrs |-> c.attrs]]

\* src >> Edge(...) >> dst.  A name not yet assigned is a NameError, which ends
\* the process like any other exception.
ConnectNodes ==
    /\ InRoutine
    /\ Stmt.op = "connect"
    /\ IF Bound(env, <<Stmt.src, Stmt.dst>>)
       THEN /\ diagram' = [diagram EXCEPT !.edges = @ \o NewEdges(env, Stmt)]
            /\ fpc' = fpc + 1
            /\ UNCHANGED <<status, log>>
       ELSE /\ status' = "crashed"
            /\ log' = Append(log, <<"raise", fn>>)
            /\ UNCHANGED <<diagram, fpc>>
    /\ UNCHANGED <<mode, run, calls, mpc, fn, it, env, active, stack, nextId,
                   dirExists, fs, snap, built>>

\* One iteration of for var in l1 + l2 + ...: var is bound to the next element
\* and the body's edge is added; after the last element the loop is left.
ForLoop ==
    /\ InRoutine
    /\ Stmt.op = "for"
    /\ Bound(env, Stmt.lists)
    /\ LET items == Concat(env, Stmt.lists)
           e2 == Bind(env, Stmt.var, <<items[it + 1]>>)
           last == it + 1 >= Len(items)
       IN  /\ it < Len(items)
           /\ env' = e2
           /\ IF Bound(e2, <<Stmt.body.src, Stmt.body.dst>>)
              THEN /\ diagram' = [diagram EXCEPT !.edges = @ \o NewEdges(e2, Stmt.body)]
                   /\ it' = IF last THEN 0 ELSE it + 1
                   /\ fpc' = IF last THEN fpc + 1 ELSE fpc
                   /\ UNCHANGED <<status, log>>
              ELSE /\ status' = "crashed"
                   /\ log' = Append(log, <<"raise", fn>>)
                   /\ UNCHANGED <<diagram, it, fpc>>
    /\ UNCHANGED <<mode, run, calls, mpc, fn, active, stack, nextId, dirExists,
                   fs, snap, built>>

\* The end of the with Diagram block: the diagram is rendered to its file (the
\* renderer makes a missing directory itself when it does not fail, see Raise),
\* the global diagram context is cleared and the routine returns.
ExitDiagram ==
    /\ InRoutine
    /\ Stmt.op = "enddiagram"
    /\ active
    /\ fs' = WriteFile(fs, OutputPath(diagram), diagram)
    /\ dirExists' = TRUE
    /\ log' = log \o << <<"write", OutputPath(diagram)>>, <<"return", fn>> >>
    /\ built' = [built EXCEPT ![fn] = @ \cup {Structure(diagram)}]
    /\ active' = FALSE
    /\ fn' = ""
    /\ fpc' = 1
    /\ env' = EmptyEnv
    /\ mpc' = IF mode = "script" THEN mpc + 1 ELSE mpc
    /\ UNCHANGED <<mode, status, run, calls, it, diagram, stack, nextId, snap>>

\* Where an exception can be raised: any statement of a build routine (the
\* library, the renderer, the filesystem) and the directory creation.
CanRaise ==
    IF fn # "" THEN status = "running"
    ELSE InMain /\ MainProgram[mpc].op = "makedirs"

\* An exception caught and the failed step skipped.
Raise_Caught ==
    /\ CanRaise
    /\ log' = Append(log, <<"raise", IF fn # "" THEN fn ELSE "makedirs">>)
    /\ fn' = ""
    /\ active' = FALSE
    /\ mpc' = IF mode = "script" THEN mpc + 1 ELSE mpc
    /\ UNCHANGED <<mode, status, run, calls, fpc, it, env, diagram, stack, nextId,
                   dirExists, fs, snap, built>>

\* An exception: nothing catches it, the process ends.  Raised inside a with
\* Diagram block it passes through the block's exit first, which may or may not
\* get as far as writing the file of the diagram built so far.
Raise ==
    /\ CanRaise
    /\ status' = "crashed"
    /\ \E partial \in BOOLEAN :
          IF partial /\ active
          THEN /\ fs' = WriteFile(fs, OutputPath(diagram), diagram)
               /\ dirExists' = TRUE
               /\ log' = log \o << <<"raise", fn>>, <<"write", OutputPath(diagram)>> >>
          ELSE /\ log' = Append(log, <<"raise", IF fn # "" THEN fn ELSE "makedirs">>)
               /\ UNCHANGED <<fs, dirExists>>
    /\ UNCHANGED <<mode, run, calls, mpc, fn, fpc, it, env, active, diagram, stack,
                   nextId, snap, built>>

Next ==
    \/ MainPrint
    \/ MainMakedirs
    \/ MainCall
    \/ MainExit
    \/ Rerun
    \/ ImportCall
    \/ EnterDiagram
    \/ EnterCluster
    \/ ExitCluster
    \/ AssignNode
    \/ AssignNodes
    \/ AssignList
    \/ ConnectNodes
    \/ ForLoop
    \/ ExitDiagram
    \/ Raise

Spec == Init /\ [][Next]_vars

(***************************************************************************)
(* Properties.                                                             *)
(***************************************************************************)
\* The events of the given kinds, in the order they happened.
Events(kinds) == SelectSeq(log, LAMBDA e : e[1] \in kinds)

\* The second components of a sequence of events.
Seconds(evs) == [i \in 1..Len(evs) |-> evs[i][2]]

\* The paths written by this process, in order.
Written == Seconds(Events({"write"}))

\* The lines printed by this process, in order.
Printed == Seconds(Events({"print"}))

\* The elements of a sequence.
Range(q) == {q[i] : i \in 1..Len(q)}

\* q is an initial part of r.
IsPrefix(q, r) == Len(q) <= Len(r) /\ SubSeq(r, 1, Len(q)) = q

\* The five routines in the order the specification gives them, each with the
\* file it is to produce and the progress message printed for it.
Order ==
    << "create_architecture", "create_coverage", "create_validation_matrix",
       "create_timeline", "create_firewall_rules" >>

ExpectedFile ==
    [r \in Routines |->
        CASE r = "create_architecture" -> "output/ldap_monitoring_architecture.png"
          [] r = "create_coverage" -> "output/ldap_monitoring_coverage.png"
          [] r = "create_validation_matrix" -> "output/validation_matrix.png"
          [] r = "create_timeline" -> "output/monitoring_timeline.png"
          [] r = "create_firewall_rules" -> "output/firewall_rules.png"]

Progress ==
    [r \in Routines |->
        CASE r = "create_architecture" -> "Architecture diagram created"
          [] r = "create_coverage" -> "Coverage diagram created"
          [] r = "create_validation_matrix" -> "Validation matrix created"
          [] r = "create_timeline" -> "Timeline diagram created"
          [] r = "create_firewall_rules" -> "Firewall rules diagram created"]

OutputFiles == {ExpectedFile[r] : r \in Routines}

ProgressLines == {Progress[r] : r \in Routines}

ScriptDone == mode = "script" /\ status = "done"

\* C1: a run of the script in which every build routine succeeds writes exactly
\* five files, one per routine and in the routines' order, at the five expected
\* paths, which are pairwise distinct; nothing else appears in output/; and a
\* routine that returns, however it was invoked, has written exactly one file,
\* the expected one.
C1_FiveFiles ==
    /\ ScriptDone =>
          /\ Written = [i \in 1..Len(Order) |-> ExpectedFile[Order[i]]]
          /\ Cardinality(Range(Written)) = Len(Order)
          /\ DOMAIN fs = DOMAIN snap \cup OutputFiles
          /\ \A p \in OutputFiles : fs[p].filename \o ".png" = p
    /\ LET evs == Events({"call", "write", "return"})
       IN  \A j \in 1..Len(evs) :
              evs[j][1] = "return" =>
                 /\ j >= 3
                 /\ evs[j - 1] = <<"write", ExpectedFile[evs[j][2]]>>
                 /\ evs[j - 2] = <<"call", evs[j][2]>>

C1_Witness == ScriptDone /\ Len(Written) = 5 /\ dirExists

C2_ExpectedTrace ==
    [i \in 1..(3 * Len(Order)) |->
        CASE i % 3 = 1 -> <<"call", Order[(i + 2) \div 3]>>
          [] i % 3 = 2 -> <<"return", Order[(i + 2) \div 3]>>
          [] i % 3 = 0 -> <<"print", Progress[Order[(i + 2) \div 3]]>>]

C2_Trace ==
    SelectSeq(log, LAMBDA e : \/ e[1] \in {"call", "return"}
                              \/ e[1] = "print" /\ e[2] \in ProgressLines)

\* C2: in a run of the script the five routines are called in the fixed order,
\* each once, none before the previous one has returned, and each diagram's
\* progress message is printed after its routine has returned and before the
\* next routine is called.
C2_SequentialOrder ==
    mode = "script" =>
        /\ IsPrefix(C2_Trace, C2_ExpectedTrace)
        /\ status = "done" => C2_Trace = C2_ExpectedTrace
        /\ fn # "" => /\ Len(C2_Trace) % 3 = 1
                      /\ C2_Trace[Len(C2_Trace)] = <<"call", fn>>

C2_Witness == ScriptDone /\ Len(C2_Trace) = 15

\* C3: an exception, in a build routine or in the directory creation, ends the
\* process: after it no routine is called or returns, nothing is printed (not
\* the failed diagram's progress message, not the summary), no file of another
\* diagram is written, and the files written before it are still there.
C3_FailureIsFatal ==
    \A i \in 1..Len(log) :
        log[i][1] = "raise" =>
            /\ status = "crashed"
            /\ \A j \in (i + 1)..Len(log) :
                  /\ log[j][1] = "write"
                  /\ log[i][2] \in Routines
                  /\ log[j][2] = ExpectedFile[log[i][2]]
            /\ log[i][2] \in Routines => Progress[log[i][2]] \notin Range(Printed)
            /\ "\nAll diagrams generated!" \notin Range(Printed)
            /\ \A j \in 1..(i - 1) : log[j][1] = "write" => log[j][2] \in DOMAIN fs
            /\ log[i][2] = "makedirs" => Events({"call", "write"}) = << >>

C3_Witness ==
    /\ mode = "script"
    /\ status = "crashed"
    /\ <<"return", "create_coverage">> \in Range(log)
    /\ <<"raise", "create_validation_matrix">> \in Range(log)
    /\ "output/ldap_monitoring_coverage.png" \in DOMAIN fs

\* C4 as stated: whenever a build routine reaches its rendering step, in any
\* execution, the output directory has been created.
C4_DirBeforeEveryRender ==
    (InRoutine /\ Stmt.op = "enddiagram") => dirExists

\* C4 as amended: in a run of the script through its main block the directory is
\* created by the main block before the first build routine is called, so it
\* exists while any routine runs and when any file is written; a directory that
\* was already there keeps the files it held (an output file of the script is
\* replaced, any other file is untouched).
C4_MainCreatesDir ==
    mode = "script" =>
        /\ fn # "" => dirExists
        /\ \A i \in 1..Len(log) :
              log[i][1] \in {"call", "write"} =>
                  \E j \in 1..(i - 1) : log[j] = <<"makedirs", "output">>
        /\ <<"makedirs", "output">> \in Range(log) => dirExists
        /\ \A p \in DOMAIN snap :
              /\ p \in DOMAIN fs
              /\ p \notin OutputFiles => fs[p] = snap[p]

C4_Witness ==
    /\ ScriptDone
    /\ run = 1
    /\ "output/notes.png" \in DOMAIN fs
    /\ Len(Written) = 5

C5_NodeIds == {diagram.nodes[i].id : i \in 1..Len(diagram.nodes)}

C5_Declared(e, names) ==
    \A i \in 1..Len(names) :
        /\ names[i] \in DOMAIN e
        /\ Range(e[names[i]]) \subseteq C5_NodeIds

\* C5: when a statement adds an edge, the names it uses are already bound to
\* nodes declared in the diagram being built, and every edge of the diagram has
\* both endpoints among that diagram's own nodes.
C5_NoDanglingEdge ==
    /\ (InRoutine /\ Stmt.op = "connect") => C5_Declared(env, <<Stmt.src, Stmt.dst>>)
    /\ (InRoutine /\ Stmt.op = "for") =>
          /\ C5_Declared(env, Stmt.lists)
          /\ C5_Declared(env, <<IF Stmt.body.src = Stmt.var THEN Stmt.body.dst
                                 ELSE Stmt.body.src>>)
    /\ \A i \in 1..Len(diagram.edges) :
          /\ diagram.edges[i].src \in C5_NodeIds
          /\ diagram.edges[i].dst \in C5_NodeIds
    /\ \A i \in 1..Len(diagram.nodes) : diagram.nodes[i].owner = diagram.id

C5_Witness ==
    /\ InRoutine
    /\ fn = "create_validation_matrix"
    /\ Stmt.op = "for"
    /\ Len(diagram.edges) = 5

C6_ClusterIds == {diagram.clusters[i].id : i \in 1..Len(diagram.clusters)}

C6_Cluster(id) == diagram.clusters[Index(diagram.clusters, id)]

RECURSIVE C6_Ancestors(_)
C6_Ancestors(id) ==
    IF id \notin C6_ClusterIds \/ C6_Cluster(id).parent \notin C6_ClusterIds
    THEN {}
    ELSE IF C6_Cluster(id).parent >= id
         THEN {id}
         ELSE {C6_Cluster(id).parent} \cup C6_Ancestors(C6_Cluster(id).parent)

C6_Children(id) == {c \in C6_ClusterIds : C6_Cluster(c).parent = id}

\* C6: at every point of construction the clusters form a tree: a cluster's parent
\* is the diagram or one cluster created before it, no cluster is its own
\* ancestor, a node lies in the diagram or in one cluster of it, the open clusters
\* are a chain from an outermost cluster to the innermost (so a cluster is closed
\* before its parent), and when the architecture diagram is rendered each of its
\* three region clusters holds exactly the sub-clusters 'Enterprise Agents' and
\* 'LDAP Servers', six distinct clusters in all.
C6_ClusterTree ==
    /\ Cardinality(C6_ClusterIds) = Len(diagram.clusters)
    /\ \A c \in C6_ClusterIds :
          /\ C6_Cluster(c).parent \in C6_ClusterIds \cup {0}
          /\ c \notin C6_Ancestors(c)
    /\ \A i \in 1..Len(diagram.nodes) : diagram.nodes[i].cluster \in C6_ClusterIds \cup {0}
    /\ InRoutine =>
          \A i \in 1..Len(stack) :
              /\ stack[i] \in C6_ClusterIds
              /\ C6_Cluster(stack[i]).parent = IF i = 1 THEN 0 ELSE stack[i - 1]
    /\ (InRoutine /\ Stmt.op = "enddiagram") => stack = << >>
    /\ (InRoutine /\ fn = "create_architecture" /\ Stmt.op = "enddiagram") =>
          /\ {C6_Cluster(c).label : c \in C6_Children(0)}
                = {"EMEA Region", "AMER Region", "APAC Region"}
          /\ Cardinality(C6_Children(0)) = 3
          /\ \A r \in C6_Children(0) :
                /\ Cardinality(C6_Children(r)) = 2
                /\ {C6_Cluster(c).label : c \in C6_Children(r)}
                      = {"Enterprise Agents", "LDAP Servers"}
                /\ \A c \in C6_Children(r) : C6_Children(c) = {}
          /\ Len(diagram.clusters) = 9

C6_Witness ==
    /\ InRoutine
    /\ fn = "create_architecture"
    /\ Len(stack) = 2
    /\ Len(diagram.clusters) = 8
    /\ C6_Cluster(stack[2]).label = "Enterprise Agents"

\* C7: when the script has run to its end a second time, output/ holds the same
\* file names as after the run before, and every file shows the same graph
\* structure as it did then.
C7_Idempotent ==
    (ScriptDone /\ run >= 2) =>
        /\ DOMAIN fs = DOMAIN snap
        /\ \A p \in DOMAIN fs : Structure(fs[p]) = Structure(snap[p])

C7_Witness ==
    /\ ScriptDone
    /\ run = 2
    /\ OutputFiles \subseteq DOMAIN fs
    /\ \A p \in OutputFiles : fs[p] # snap[p]

C8_Region(n) ==
    IF n.cluster = 0 THEN 0
    ELSE IF C6_Cluster(n.cluster).parent = 0 THEN n.cluster
         ELSE C6_Cluster(n.cluster).parent

C8_NodeOf(id) == diagram.nodes[Index(diagram.nodes, id)]

C8_Nodes(region, icon) ==
    {diagram.nodes[i].id : i \in {j \in 1..Len(diagram.nodes) :
        /\ C8_Region(diagram.nodes[j]) = region
        /\ diagram.nodes[j].icon = icon}}

C8_EdgesFrom(a, b) ==
    {i \in 1..Len(diagram.edges) : diagram.edges[i].src = a /\ diagram.edges[i].dst = b}

\* C8: the architecture diagram, when it is rendered, has exactly the three region
\* clusters EMEA, AMER and APAC, each holding two agents, two LDAP servers and one
\* firewall; in a region both agents have a monitoring edge to the region's
\* firewall and the firewall an edge to both LDAP servers; no edge joins an agent
\* to an LDAP server or nodes of two regions; and every agent has exactly one
\* dotted edge, to the one monitoring-service node.
C8_Architecture ==
    (InRoutine /\ fn = "create_architecture" /\ Stmt.op = "enddiagram") =>
        /\ {C6_Cluster(c).label : c \in C6_Children(0)}
              = {"EMEA Region", "AMER Region", "APAC Region"}
        /\ Cardinality(C6_Children(0)) = 3
        /\ Cardinality(C8_Nodes(0, "MonitoringService")) = 1
        /\ Len(diagram.nodes) = 16
        /\ \A r \in C6_Children(0) :
              /\ Cardinality(C8_Nodes(r, "Client")) = 2
              /\ Cardinality(C8_Nodes(r, "LDAPService")) = 2
              /\ Cardinality(C8_Nodes(r, "Firewall")) = 1
              /\ \A a \in C8_Nodes(r, "Client") :
                    /\ \A f \in C8_Nodes(r, "Firewall") :
                          \E i \in C8_EdgesFrom(a, f) :
                              diagram.edges[i].attrs.label = "636/LDAPS\nMonitoring"
                    /\ \A m \in C8_Nodes(0, "MonitoringService") :
                          /\ Cardinality(C8_EdgesFrom(a, m)) = 1
                          /\ \A i \in C8_EdgesFrom(a, m) :
                                diagram.edges[i].attrs.style = "dotted"
                    /\ Cardinality({i \in 1..Len(diagram.edges) :
                          /\ diagram.edges[i].src = a
                          /\ diagram.edges[i].attrs.style = "dotted"}) = 1
              /\ \A f \in C8_Nodes(r, "Firewall") :
                    \A l \in C8_Nodes(r, "LDAPService") : C8_EdgesFrom(f, l) # {}
        /\ \A i \in 1..Len(diagram.edges) :
              LET a == C8_NodeOf(diagram.edges[i].src)
                  b == C8_NodeOf(diagram.edges[i].dst)
              IN  /\ ~(a.icon = "Client" /\ b.icon = "LDAPService")
                  /\ ~(a.icon = "LDAPService" /\ b.icon = "Client")
                  /\ (C8_Region(a) # 0 /\ C8_Region(b) # 0) => C8_Region(a) = C8_Region(b)

C8_Witness ==
    /\ InRoutine
    /\ fn = "create_architecture"
    /\ Stmt.op = "enddiagram"
    /\ Len(diagram.edges) = 18

\* C9: the routines share no graph state: a routine starts with no diagram
\* context, no open cluster and no variables left by another; the nodes of the
\* diagram being built
\* were all created for that diagram, the routine's variables and the diagram's
\* edges refer to those nodes only, and a routine renders the same graph structure
\* every time, whatever ran before it.
C9_NoSharedState ==
    /\ \A r \in Routines : Cardinality(built[r]) <= 1
    /\ \A i \in 1..Len(diagram.nodes) : diagram.nodes[i].owner = diagram.id
    /\ (InRoutine /\ fpc = 1) => (~active /\ env = EmptyEnv /\ stack = << >>)
    /\ InRoutine =>
          /\ \A v \in DOMAIN env : Range(env[v]) \subseteq C5_NodeIds
          /\ fpc > 1 =>
                /\ diagram.name = Program(fn)[1].name
                /\ \A i \in 1..Len(diagram.edges) :
                      {diagram.edges[i].src, diagram.edges[i].dst} \subseteq C5_NodeIds

C9_Witness ==
    /\ mode = "import"
    /\ Events({"call", "return"}) =
          << <<"call", "create_firewall_rules">>, <<"return", "create_firewall_rules">>,
             <<"call", "create_timeline">>, <<"return", "create_timeline">> >>
    /\ built["create_timeline"] # {}
    /\ built["create_firewall_rules"] # {}

C10_Listed ==
    LET k == CHOOSE i \in 1..Len(Printed) : Printed[i] = "\nGenerated files:"
    IN  SubSeq(Printed, k + 1, Len(Printed))

C10_Basename(path) == SubSeq(path, Len("output/") + 1, Len(path))

\* C10: at the end of a successful run the lines printed after "Generated files:"
\* name the files written, in the order they were written, each the written
\* file's name inside output/; and such a line is printed only when all five
\* routines have returned.
C10_GeneratedFilesList ==
    /\ ScriptDone =>
          /\ "\nGenerated files:" \in Range(Printed)
          /\ Len(C10_Listed) = Len(Written)
          /\ \A i \in 1..Len(Written) :
                /\ SubSeq(Written[i], 1, Len("output/")) = "output/"
                /\ C10_Listed[i] = "- " \o C10_Basename(Written[i])
                /\ \E r \in Routines :
                      Written[i] = Program(r)[1].filename \o ".png"
          /\ Range(Written) \subseteq DOMAIN fs
    /\ mode = "script" =>
          \A i \in 1..Len(Printed) :
              SubSeq(Printed[i], 1, 2) = "- " => Len(Events({"return"})) = 5

C10_Witness == ScriptDone /\ Len(C10_Listed) = 5 /\ C10_Listed[4] = "- monitoring_timeline.png"
====
